---- MODULE Spec2Model ----
(***************************************************************************)
(* Rock-Paper-Scissors tournament server (app.py): the player store        *)
(* LEADERBOARD, the single game session GAME_STATE, the choice recorder,   *)
(* the strategic predictor and the request handlers.                       *)
(***************************************************************************)
EXTENDS Integers, Sequences, FiniteSets, TLC

VARIABLES
    LEADERBOARD,   \* dict: player id -> player record
    GAME_STATE,    \* dict: the single game session
    data_file,     \* content of DATA_FILE, or NoFile
    backup_file,   \* content of BACKUP_FILE, or NoFile
    record_calls,  \* history variable: per id, the moves play_round handed to the recorder since the id's registration
    rounds_played, \* history variable: per id, the number of accepted rounds it took part in since registration
    games_started, \* history variable: number of accepted start_game calls
    inflight,      \* the client's choice for the round being played, kept in the frontend until submitted
    cpu_reply,     \* the reply of /api/cpu/strategic_choice, when it was the last request handled
    in_progress    \* per request thread, how far the handler it runs has come

vars == <<LEADERBOARD, GAME_STATE, data_file, backup_file, record_calls, rounds_played,
          games_started, inflight, cpu_reply, in_progress>>

-----------------------------------------------------------------------------
(* Bounds of the model *)

\* humans that can be registered at the same time
MaxPlayers == 1
\* accepted start_game calls in one run
MaxGames == 1
\* accepted start_game calls in one run of a series of games
MaxSeries == 2
\* calls of the recorder in one run of the recorder on its own
MaxRecords == 6
\* rounds of a game played with any pair of moves
MaxRounds == 3
\* humans that can be registered at the same time in a run about registration
MaxRegistered == 2
\* humans on the leaderboard, and the score a player can reach, in a run about its views
MaxBoard == 2
MaxScore == 2
\* request threads of the server
MaxThreads == 2
\* recorder calls on one player in a run about the window of move_sequence
MaxWindow == 12
\* how often scissors is among them, rock and paper being free
MaxScissors == 1

(* Program constants *)

CPU_ID == "cpu-00000000-0000-0000-0000-000000000000"
None == "None"
\* no reply of the predictor is at hand
NoReply == [status |-> 0]
\* os.path.exists(file) is false
NoFile == [exists |-> FALSE]
\* play_round: current_round >= 10
GAME_ROUNDS == 10
\* record_player_choice: len(move_seq) > 10
SEQUENCE_WINDOW == 10
\* get_strategic_cpu_choice
MIN_HISTORY_THRESHOLD == 5
MIN_PATTERN_THRESHOLD == 3

\* choices = ["rock", "paper", "scissors"], in list order
choices == <<"rock", "paper", "scissors">>
Moves == {"rock", "paper", "scissors"}

RPS_RULES ==
    [m \in Moves |->
        CASE m = "rock"     -> [beats |-> "scissors", loses_to |-> "paper"]
          [] m = "paper"    -> [beats |-> "rock",     loses_to |-> "scissors"]
          [] m = "scissors" -> [beats |-> "paper",    loses_to |-> "rock"]]

COUNTER_MOVES ==
    [m \in Moves |->
        CASE m = "rock"     -> "paper"
          [] m = "paper"    -> "scissors"
          [] m = "scissors" -> "rock"]

-----------------------------------------------------------------------------
(* String conversions used on request fields, on the inputs the model draws *)

\* str.strip()
Strip(s) ==
    CASE s = " "     -> ""
      [] s = " Ann " -> "Ann"
      [] s = " p1 "  -> "p1"
      [] OTHER       -> s

\* str.upper()
Upper(s) ==
    CASE s = "cpu" -> "CPU"
      [] s = "Cpu" -> "CPU"
      [] s = "Ann" -> "ANN"
      [] s = "Bob" -> "BOB"
      [] s = "a"   -> "A"
      [] s = "b"   -> "B"
      [] OTHER     -> s

\* str.lower()
Lower(s) ==
    CASE s = "Rock"   -> "rock"
      [] s = "PAPER"  -> "paper"
      [] s = "Lizard" -> "lizard"
      [] s = "CPU"    -> "cpu"
      [] s = "Ann"    -> "ann"
      [] s = "A"      -> "a"
      [] s = "C"      -> "c"
      [] OTHER        -> s

\* the place of a lower-case name in the order of str.__lt__
KeyRank(s) ==
    CASE s = "a"   -> 1
      [] s = "ann" -> 2
      [] s = "b"   -> 3
      [] s = "c"   -> 4
      [] s = "cpu" -> 5

-----------------------------------------------------------------------------
(* Dictionaries *)

EmptyDict == [k \in {} |-> 0]

Put(d, k, v) == [x \in (DOMAIN d) \cup {k} |-> IF x = k THEN v ELSE d[x]]

\* dict.get(k, default)
Get(d, k, default) == IF k \in DOMAIN d THEN d[k] ELSE default

ZeroCounts == [m \in Moves |-> 0]

\* sum(counter.values())
Total(counter) == counter["rock"] + counter["paper"] + counter["scissors"]

\* the last key, in insertion order, that holds the largest count
ArgMaxLast(counter) ==
    IF counter["scissors"] >= counter["paper"] /\ counter["scissors"] >= counter["rock"]
    THEN "scissors"
    ELSE IF counter["paper"] >= counter["rock"] THEN "paper" ELSE "rock"

\* max(counter, key=counter.get): the first key, in insertion order rock, paper,
\* scissors, that holds the largest count
ArgMax(counter) ==
    IF counter["rock"] >= counter["paper"] /\ counter["rock"] >= counter["scissors"]
    THEN "rock"
    ELSE IF counter["paper"] >= counter["scissors"] THEN "paper" ELSE "scissors"

\* round(num / den * 100) for 0 <= num <= den, den > 0: Python 3 rounds halves to even
RoundPercent(num, den) ==
    LET q == (100 * num) \div den
        r == (100 * num) % den
    IN  IF 2 * r < den THEN q
        ELSE IF 2 * r > den THEN q + 1
        ELSE IF q % 2 = 0 THEN q ELSE q + 1

-----------------------------------------------------------------------------
(* Helper functions *)

\* the value of LEADERBOARD.get(player_id) for an id that is no key
NonePlayer == [none |-> TRUE]

get_player_by_id(board, player_id) == Get(board, player_id, NonePlayer)

\* "if not player_data": None is falsy, a player record never is
Falsy(player_data) == player_data = NonePlayer

\* init_cpu_player's record: no move_sequence, no pattern_history
CpuRecord ==
    [id |-> CPU_ID, name |-> "CPU", score |-> 0, games_won |-> 0, games_played |-> 0,
     is_cpu |-> TRUE, choice_history |-> ZeroCounts]

init_cpu_player(board) ==
    IF CPU_ID \in DOMAIN board THEN board ELSE Put(board, CPU_ID, CpuRecord)

\* register_player's record
NewPlayerRecord(player_id, player_name) ==
    [id |-> player_id, name |-> player_name, score |-> 0, games_won |-> 0,
     games_played |-> 0, is_cpu |-> FALSE, choice_history |-> ZeroCounts,
     move_sequence |-> <<>>, pattern_history |-> EmptyDict]

-----------------------------------------------------------------------------
(* Persistence *)

\* SHA-256 of the key-sorted JSON text, taken as collision free: the digest
\* stands for the text it was computed from
calculate_checksum(data) == <<"sha256", data>>

\* save_leaderboard: copy the main file to the backup if it exists, then
\* write the store and its checksum to the main file
SavedDocument(board) == [leaderboard |-> board, checksum |-> calculate_checksum(board)]

save_leaderboard(board) ==
    /\ backup_file' = IF data_file # NoFile THEN data_file ELSE backup_file
    /\ data_file' = SavedDocument(board)

\* a file whose text json.load cannot parse
Unreadable == [unreadable |-> TRUE]

\* json.load(f) succeeds and yields a dict
Parses(file) == file # NoFile /\ file # Unreadable

\* load_from_backup: the store the process starts with when the main file
\* cannot be used; the backup's checksum is not looked at
load_from_backup(backup) ==
    IF backup = NoFile THEN init_cpu_player(EmptyDict)
    ELSE IF ~Parses(backup) THEN init_cpu_player(EmptyDict)
    ELSE init_cpu_player(Get(backup, "leaderboard", EmptyDict))

\* the checksum check comparing the stored digest with the digest of the whole document
ChecksumMatchesDocument(save_data) == save_data.checksum = calculate_checksum(save_data)

\* expected == actual
ChecksumMatches(save_data) ==
    save_data.checksum = calculate_checksum(Get(save_data, "leaderboard", EmptyDict))

\* load_leaderboard: the store the process starts with, given the two files.
\* json.dump and json.load give back the store they were handed: its keys are
\* strings and its values strings, integers, booleans, lists and dicts
load_leaderboard(main, backup) ==
    IF main = NoFile THEN init_cpu_player(EmptyDict)
    ELSE IF ~Parses(main) THEN load_from_backup(backup)
    ELSE IF "checksum" \in DOMAIN main /\ ~ChecksumMatches(main) THEN load_from_backup(backup)
    ELSE init_cpu_player(Get(main, "leaderboard", EmptyDict))

-----------------------------------------------------------------------------
(* Choice history recorder *)

\* a key that holds the last two moves the other way round
PatternKeyReversed(move_seq) == <<move_seq[Len(move_seq)], move_seq[Len(move_seq) - 1]>>

\* the key str(tuple(move_seq[-2:])), as the pair it is the text of
PatternKey(move_seq) == <<move_seq[Len(move_seq) - 1], move_seq[Len(move_seq)]>>

\* the three tracking fields, the missing ones initialised as the recorder does
WithTracking(player_data) ==
    [f \in (DOMAIN player_data) \cup {"choice_history", "move_sequence", "pattern_history"} |->
        IF f \in DOMAIN player_data THEN player_data[f]
        ELSE IF f = "choice_history" THEN ZeroCounts
        ELSE IF f = "move_sequence" THEN <<>>
        ELSE EmptyDict]

\* a window that drops the move just appended when it is full
KeepLastDropsNewest(move_seq) ==
    IF Len(move_seq) > SEQUENCE_WINDOW THEN SubSeq(move_seq, 1, SEQUENCE_WINDOW) ELSE move_seq

\* if len(move_seq) > 10: move_seq.pop(0)
KeepLast(move_seq) ==
    IF Len(move_seq) > SEQUENCE_WINDOW THEN Tail(move_seq) ELSE move_seq

\* a recorder that counts a pattern under the last move alone, from the
\* second call on
RecordedChoiceFromOne(player_data, choice) ==
    LET p == WithTracking(player_data)
        move_seq == p.move_sequence
        patterns ==
            IF Len(move_seq) >= 1
            THEN LET pattern_key == <<move_seq[Len(move_seq)], move_seq[Len(move_seq)]>>
                     old == Get(p.pattern_history, pattern_key, ZeroCounts)
                 IN  Put(p.pattern_history, pattern_key,
                         [old EXCEPT ![choice] = @ + 1])
            ELSE p.pattern_history
        appended == Append(move_seq, choice)
    IN  [p EXCEPT
            !.choice_history[choice] = @ + 1,
            !.pattern_history = patterns,
            !.move_sequence = KeepLast(appended)]

\* the body of record_player_choice on a non-CPU record
RecordedChoice(player_data, choice) ==
    LET p == WithTracking(player_data)
        move_seq == p.move_sequence
        patterns ==
            IF Len(move_seq) >= 2
            THEN LET pattern_key == PatternKey(move_seq)
                     old == Get(p.pattern_history, pattern_key, ZeroCounts)
                 IN  Put(p.pattern_history, pattern_key,
                         [old EXCEPT ![choice] = @ + 1])
            ELSE p.pattern_history
        appended == Append(move_seq, choice)
    IN  [p EXCEPT
            !.choice_history[choice] = @ + 1,
            !.pattern_history = patterns,
            !.move_sequence = KeepLast(appended)]

\* the record after the recorder ran on it with each of `moves` in turn
RECURSIVE RecordedAll(_, _)
RecordedAll(player_data, moves) ==
    IF moves = <<>> THEN player_data
    ELSE RecordedAll(RecordedChoice(player_data, Head(moves)), Tail(moves))

\* the recorder without its "Skip tracking for CPU"
record_player_choice_cpu_too(board, player_id, choice) ==
    LET player_data == get_player_by_id(board, player_id)
    IN  IF Falsy(player_data) \/ choice \notin Moves THEN board
        ELSE [board EXCEPT ![player_id] = RecordedChoice(player_data, choice)]

\* record_player_choice(player_id, choice) applied to the store `board`
record_player_choice(board, player_id, choice) ==
    LET player_data == get_player_by_id(board, player_id)
    IN  IF Falsy(player_data) \/ choice \notin Moves THEN board
        ELSE IF Get(player_data, "is_cpu", FALSE) THEN board
        ELSE [board EXCEPT ![player_id] = RecordedChoice(player_data, choice)]

\* the winner read off "loses_to" in place of "beats"
determine_round_winner_swapped(choice1, choice2) ==
    IF choice1 = choice2 THEN "tie"
    ELSE IF RPS_RULES[choice1].loses_to = choice2 THEN "player1"
    ELSE "player2"

determine_round_winner(choice1, choice2) ==
    IF choice1 = choice2 THEN "tie"
    ELSE IF RPS_RULES[choice1].beats = choice2 THEN "player1"
    ELSE "player2"

-----------------------------------------------------------------------------
(* Strategic predictor *)

\* the pattern strategy without its threshold on the number of occurrences
PatternAppliesEarly(player_data) ==
    LET move_sequence == Get(player_data, "move_sequence", <<>>)
        pattern_history == Get(player_data, "pattern_history", EmptyDict)
    IN  /\ Len(move_sequence) >= 2
        /\ PatternKey(move_sequence) \in DOMAIN pattern_history
        /\ LET pattern_data == pattern_history[PatternKey(move_sequence)]
           IN  2 * pattern_data[ArgMax(pattern_data)] > Total(pattern_data)

\* get_strategic_cpu_choice: the strategy and confidence it returns for the
\* store `board`; a value of random.choice or random.random is left open, so
\* the operator yields the set of results the call can return
PatternApplies(player_data) ==
    LET move_sequence == Get(player_data, "move_sequence", <<>>)
        pattern_history == Get(player_data, "pattern_history", EmptyDict)
    IN  /\ Len(move_sequence) >= 2
        /\ PatternKey(move_sequence) \in DOMAIN pattern_history
        /\ LET pattern_data == pattern_history[PatternKey(move_sequence)]
               pattern_total == Total(pattern_data)
           IN  /\ pattern_total >= MIN_PATTERN_THRESHOLD
               \* pattern_confidence > 0.5
               /\ 2 * pattern_data[ArgMax(pattern_data)] > pattern_total

\* a frequency reply whose confidence follows the move it returns
FrequencyRepliesByMove(predicted_choice, confidence) ==
    {[choice |-> c, strategy_used |-> "random_variation",
      confidence |-> IF c = COUNTER_MOVES[predicted_choice] THEN confidence ELSE 0] : c \in Moves}
    \cup
    {[choice |-> COUNTER_MOVES[predicted_choice], strategy_used |-> "frequency",
      confidence |-> confidence]}

\* Strategy 2: with random.random() < RANDOMNESS_FACTOR any move, as
\* "random_variation"; otherwise the counter of the predicted move, as "frequency"
FrequencyReplies(predicted_choice, confidence) ==
    {[choice |-> c, strategy_used |-> "random_variation", confidence |-> confidence] :
        c \in Moves}
    \cup
    {[choice |-> COUNTER_MOVES[predicted_choice], strategy_used |-> "frequency",
      confidence |-> confidence]}

get_strategic_cpu_choice(board, opponent_id) ==
    LET player_data == get_player_by_id(board, opponent_id)
        history == Get(player_data, "choice_history", ZeroCounts)
        total_choices == Total(history)
        pattern_data == player_data.pattern_history[PatternKey(player_data.move_sequence)]
        predicted_move == ArgMax(pattern_data)
        predicted_choice == ArgMax(history)
        \* weight = 1 + count[beats]/total; the three sum to 4
        max_weight_count ==
            CHOOSE c \in {history[RPS_RULES[m].beats] : m \in Moves} :
                \A m \in Moves : history[RPS_RULES[m].beats] <= c
    IN  IF Falsy(player_data)
        THEN {[choice |-> c, strategy_used |-> "random", confidence |-> 0] : c \in Moves}
        ELSE IF total_choices < MIN_HISTORY_THRESHOLD
        THEN {[choice |-> c, strategy_used |-> "learning", confidence |-> total_choices] :
                 c \in Moves}
        ELSE IF PatternApplies(player_data)
        THEN {[choice |-> COUNTER_MOVES[predicted_move], strategy_used |-> "pattern",
               confidence |-> RoundPercent(pattern_data[predicted_move], Total(pattern_data))]}
        \* prediction_confidence > 0.4
        ELSE IF 5 * history[predicted_choice] > 2 * total_choices
        THEN FrequencyReplies(predicted_choice,
                              RoundPercent(history[predicted_choice], total_choices))
        ELSE {[choice |-> c, strategy_used |-> "weighted",
               confidence |-> RoundPercent(total_choices + max_weight_count, 4 * total_choices)] :
                 c \in Moves}

-----------------------------------------------------------------------------
(* The session *)

\* the module-level GAME_STATE, which reset_tournament restores
IdleGameState ==
    [player1_id |-> None, player2_id |-> None, player1_name |-> None, player2_name |-> None,
     player1_round_wins |-> 0, player2_round_wins |-> 0, current_round |-> 0,
     game_active |-> FALSE, previous_winner_id |-> None, previous_winner_name |-> None,
     game_history |-> <<>>]

-----------------------------------------------------------------------------
(* Request handlers.  A handler is an operator of the store `board` and the
   session `game` it runs on: it yields the store and session it leaves, whether
   it called save_leaderboard, its reply, and the calls it made to the
   recorder, in order. *)

Outcome(board, game, saved, reply, recorded) ==
    [LEADERBOARD |-> board, GAME_STATE |-> game, saved |-> saved, response |-> reply,
     recorded |-> recorded]

\* return jsonify({"error": ...}), status
Reject(board, game, status, error) ==
    Outcome(board, game, FALSE, [status |-> status, error |-> error], <<>>)

\* registration by name: a name that a record already has gets that record
register_player_by_name(board, game, name, is_cpu, new_id) ==
    LET player_name == Strip(name)
        same == {id \in DOMAIN board : board[id].name = player_name}
        player_id == IF same = {} THEN new_id ELSE CHOOSE id \in same : TRUE
        added == IF same = {} THEN Put(board, player_id, NewPlayerRecord(player_id, player_name))
                 ELSE board
    IN  IF player_name = ""
        THEN Reject(board, game, 400, "Player name is required")
        ELSE IF is_cpu \/ Upper(player_name) = "CPU"
        THEN Outcome(board, game, FALSE,
                     [status |-> 200, id |-> CPU_ID, name |-> "CPU", stats |-> board[CPU_ID]],
                     <<>>)
        ELSE Outcome(added, game, TRUE,
                     [status |-> 201, id |-> player_id, name |-> player_name,
                      stats |-> added[player_id]],
                     <<>>)

\* POST /api/player/register; new_id is the value of generate_player_id()
register_player(board, game, name, is_cpu, new_id) ==
    LET player_name == Strip(name)
        player_id == new_id
        added == Put(board, player_id, NewPlayerRecord(player_id, player_name))
    IN  IF player_name = ""
        THEN Reject(board, game, 400, "Player name is required")
        ELSE IF is_cpu \/ Upper(player_name) = "CPU"
        THEN Outcome(board, game, FALSE,
                     [status |-> 200, id |-> CPU_ID, name |-> "CPU", stats |-> board[CPU_ID]],
                     <<>>)
        ELSE Outcome(added, game, TRUE,
                     [status |-> 201, id |-> player_id, name |-> player_name,
                      stats |-> added[player_id]],
                     <<>>)

\* GET /api/player/<player_id>/stats
get_player_stats(board, game, player_id) ==
    LET player == get_player_by_id(board, player_id)
        history == Get(player, "choice_history", ZeroCounts)
    IN  IF Falsy(player)
        THEN Reject(board, game, 404, "Player not found")
        ELSE Outcome(board, game, FALSE,
                     [status |-> 200, id |-> player_id, name |-> player.name,
                      score |-> player.score, games_won |-> player.games_won,
                      games_played |-> player.games_played,
                      total_choices |-> Total(history)],
                     <<>>)

\* POST /api/game/start
start_game(board, game, id1, id2) ==
    LET player1_id == Strip(id1)
        player2_id == Strip(id2)
        player1 == get_player_by_id(board, player1_id)
        player2 == get_player_by_id(board, player2_id)
    IN  IF player1_id = "" \/ player2_id = ""
        THEN Reject(board, game, 400, "Both player IDs are required")
        ELSE IF Falsy(player1) \/ Falsy(player2)
        THEN Reject(board, game, 400, "Both players must be registered first")
        ELSE Outcome(board,
                     [player1_id |-> player1_id, player2_id |-> player2_id,
                      player1_name |-> player1.name, player2_name |-> player2.name,
                      player1_round_wins |-> 0, player2_round_wins |-> 0,
                      current_round |-> 0, game_active |-> TRUE,
                      previous_winner_id |-> game.previous_winner_id,
                      previous_winner_name |-> game.previous_winner_name,
                      game_history |-> <<>>],
                     TRUE,
                     [status |-> 200, message |-> "Game started",
                      player1_id |-> player1_id, player2_id |-> player2_id],
                     <<>>)

\* the game never ending, whatever the round
GameOverNever(current_round) == FALSE

\* the game ending one round late
GameOverLate(current_round) == current_round > GAME_ROUNDS

\* game_over = GAME_STATE["current_round"] >= 10
GameOver(current_round) == current_round >= GAME_ROUNDS

\* the winner kept for the next game, CPU included
KeepsWinnerCpuToo(game_winner_id) == game_winner_id # None

\* "if game_winner_id and game_winner_id != CPU_ID"
KeepsWinner(game_winner_id) == game_winner_id # None /\ game_winner_id # CPU_ID

\* the validation looking at player 1's token only
ValidChoicesFirstOnly(choice1, choice2) == choice1 \in Moves

\* not (choice1 not in valid_choices or choice2 not in valid_choices)
ValidChoices(choice1, choice2) == choice1 \in Moves /\ choice2 \in Moves

\* play_round from request.get_json() on: the round itself, after the two
\* checks of the session have passed
play_round_body(board, game, c1, c2) ==
    LET choice1 == Lower(c1)
        choice2 == Lower(c2)
        player1_id == game.player1_id
        player2_id == game.player2_id
        recorded == record_player_choice(record_player_choice(board, player1_id, choice1),
                                         player2_id, choice2)
        current_round == game.current_round + 1
        round_result == determine_round_winner(choice1, choice2)
        round_data == [round |-> current_round, player1_choice |-> choice1,
                       player2_choice |-> choice2, result |-> round_result]
        player1_round_wins == game.player1_round_wins + (IF round_result = "player1" THEN 1 ELSE 0)
        player2_round_wins == game.player2_round_wins + (IF round_result = "player2" THEN 1 ELSE 0)
        scored ==
            IF round_result = "player1"
            THEN [recorded EXCEPT ![player1_id].score = @ + 1]
            ELSE IF round_result = "player2"
            THEN [recorded EXCEPT ![player2_id].score = @ + 1]
            ELSE recorded
        game_over == GameOver(current_round)
        game_winner_id ==
            IF ~game_over THEN None
            ELSE IF player1_round_wins > player2_round_wins THEN player1_id
            ELSE IF player2_round_wins > player1_round_wins THEN player2_id
            ELSE None
        game_winner_name ==
            IF game_winner_id = None THEN None
            ELSE IF player1_round_wins > player2_round_wins THEN game.player1_name
            ELSE game.player2_name
        won ==
            IF game_winner_id = None THEN scored
            ELSE [scored EXCEPT ![game_winner_id].games_won = @ + 1]
        played1 == [won EXCEPT ![player1_id].games_played = @ + 1]
        played == [played1 EXCEPT ![player2_id].games_played = @ + 1]
        keep_winner == KeepsWinner(game_winner_id)
        after ==
            [game EXCEPT
                !.current_round = current_round,
                !.player1_round_wins = player1_round_wins,
                !.player2_round_wins = player2_round_wins,
                !.game_history = Append(@, round_data),
                !.game_active = IF game_over THEN FALSE ELSE @,
                !.previous_winner_id =
                    IF ~game_over THEN @ ELSE IF keep_winner THEN game_winner_id ELSE None,
                !.previous_winner_name =
                    IF ~game_over THEN @ ELSE IF keep_winner THEN game_winner_name ELSE None]
        \* LEADERBOARD[player_id] raises KeyError for an id the store does not
        \* hold: the handler ends there with a 500 reply, what it assigned
        \* before stays, and save_leaderboard is not reached
        known1 == player1_id \in DOMAIN board
        known2 == player2_id \in DOMAIN board
        score_fails == \/ round_result = "player1" /\ ~known1
                       \/ round_result = "player2" /\ ~known2
        played_fails == game_over /\ (~known1 \/ ~known2)
        counted == [game EXCEPT
                       !.current_round = current_round,
                       !.player1_round_wins = player1_round_wins,
                       !.player2_round_wins = player2_round_wins]
        closed == [counted EXCEPT !.game_history = Append(@, round_data),
                                  !.game_active = FALSE]
        calls == <<<<player1_id, choice1>>, <<player2_id, choice2>>>>
        KeyError == [status |-> 500, error |-> "KeyError"]
    IN  IF ~ValidChoices(choice1, choice2)
        THEN Reject(board, game, 400, "Invalid choice")
        ELSE IF score_fails
        THEN Outcome(recorded, counted, FALSE, KeyError, calls)
        ELSE IF played_fails
        THEN Outcome(IF game_winner_id # None /\ game_winner_id \notin DOMAIN board
                     THEN scored
                     ELSE IF ~known1 THEN won ELSE played1,
                     closed, FALSE, KeyError, calls)
        ELSE Outcome(IF game_over THEN played ELSE scored, after, TRUE,
                     [status |-> 200, round |-> round_data, game_over |-> game_over,
                      game_winner |-> game_winner_id],
                     calls)

\* POST /api/game/play_round: the two checks of the session, then the round
play_round(board, game, c1, c2) ==
    IF ~game.game_active
    THEN Reject(board, game, 400, "No active game")
    ELSE IF game.current_round >= GAME_ROUNDS
    THEN Reject(board, game, 400, "Game is over")
    ELSE play_round_body(board, game, c1, c2)

\* the handler recording the move the client holds for the round in play
cpu_strategic_choice_leaky(board, game, opponent) ==
    LET opponent_id == Strip(opponent)
        seen == record_player_choice(board, opponent_id, inflight)
    IN  IF opponent_id = ""
        THEN {Reject(board, game, 400, "Opponent ID is required")}
        ELSE {Outcome(seen, game, FALSE,
                      [status |-> 200, opponent_id |-> opponent_id, result |-> result], <<>>) :
                 result \in get_strategic_cpu_choice(seen, opponent_id)}

\* the handler reading the record with setdefault in place of get
cpu_strategic_choice_setdefault(board, game, opponent) ==
    LET opponent_id == Strip(opponent)
        seen == IF opponent_id \in DOMAIN board
                THEN [board EXCEPT ![opponent_id] = WithTracking(@)]
                ELSE board
    IN  IF opponent_id = ""
        THEN {Reject(board, game, 400, "Opponent ID is required")}
        ELSE {Outcome(seen, game, FALSE,
                      [status |-> 200, opponent_id |-> opponent_id, result |-> result], <<>>) :
                 result \in get_strategic_cpu_choice(seen, opponent_id)}

\* POST /api/cpu/strategic_choice: the replies the call can give
cpu_strategic_choice(board, game, opponent) ==
    LET opponent_id == Strip(opponent)
    IN  IF opponent_id = ""
        THEN {Reject(board, game, 400, "Opponent ID is required")}
        ELSE {Outcome(board, game, FALSE,
                      [status |-> 200, opponent_id |-> opponent_id, result |-> result], <<>>) :
                 result \in get_strategic_cpu_choice(board, opponent_id)}

\* LEADERBOARD.items(): a dict yields its keys in the order they were put in;
\* the CPU is put into the empty store first, then each human as it
\* registers, and ids are handed out in the order p1, p2, p3
StoreOrder(board) ==
    SelectSeq(<<CPU_ID, "p1", "p2", "p3">>, LAMBDA id : id \in DOMAIN board)

\* one entry of players_list
PlayerEntry(board, player_id) ==
    LET stats == board[player_id]
    IN  [id |-> player_id, name |-> stats.name, score |-> stats.score,
         games_won |-> stats.games_won, games_played |-> stats.games_played,
         is_cpu |-> Get(stats, "is_cpu", FALSE),
         total_rounds |-> Total(Get(stats, "choice_history", ZeroCounts))]

\* key=lambda x: x["name"].lower()
NameKeyLess(x, y) == KeyRank(Lower(x.name)) < KeyRank(Lower(y.name))

\* the score key without the name
ScoreKeyLessByScore(x, y) == x.score > y.score

\* key=lambda x: (-x["score"], x["name"].lower())
ScoreKeyLess(x, y) ==
    \/ x.score > y.score
    \/ x.score = y.score /\ NameKeyLess(x, y)

KeyLess(view, x, y) == IF view = "name" THEN NameKeyLess(x, y) ELSE ScoreKeyLess(x, y)

\* sorted(): stable, so an entry goes behind the entries that came before it
\* in the list and whose key is not larger
SortedInsert(view, done, x) ==
    LET k == Cardinality({i \in 1..Len(done) : ~KeyLess(view, x, done[i])})
    IN  SubSeq(done, 1, k) \o <<x>> \o SubSeq(done, k + 1, Len(done))

RECURSIVE Sorted(_, _)
Sorted(view, list) ==
    IF list = <<>> THEN <<>>
    ELSE SortedInsert(view, Sorted(view, SubSeq(list, 1, Len(list) - 1)), list[Len(list)])

\* GET /api/leaderboard
get_leaderboard(board, game) ==
    LET order == StoreOrder(board)
        players_list == [i \in 1..Len(order) |-> PlayerEntry(board, order[i])]
    IN  Outcome(board, game, FALSE,
                [status |-> 200, total_players |-> Len(players_list),
                 sorted_by_name |-> Sorted("name", players_list),
                 sorted_by_score |-> Sorted("score", players_list)],
                <<>>)

\* a reset that clears the store and leaves the session as it is
reset_tournament_keeps_session(board, game) ==
    Outcome(init_cpu_player(EmptyDict), game, TRUE,
            [status |-> 200, message |-> "Tournament reset successfully"], <<>>)

\* POST /api/reset
reset_tournament(board, game) ==
    Outcome(init_cpu_player(EmptyDict), IdleGameState, TRUE,
            [status |-> 200, message |-> "Tournament reset successfully"], <<>>)

-----------------------------------------------------------------------------
(* Request inputs *)

\* ids of the players that register_player can create
HumanIds == {"p1", "p2", "p3"}
PlayerIds == HumanIds \cup {CPU_ID}

\* uuid4 yields an id no record of the store has
FreshIds(board) == HumanIds \ DOMAIN board

generate_player_id(board) ==
    IF "p1" \in FreshIds(board) THEN "p1"
    ELSE IF "p2" \in FreshIds(board) THEN "p2"
    ELSE "p3"

NameInputs == {"", "cpu", " Ann "}
IdInputs == {"", CPU_ID, " p1 ", "p2"}
ChoiceInputs == {"rock", "paper", "scissors", "Rock", "Lizard"}

\* move pairs with each outcome: player1 wins, player2 wins, tie
FreePairs == {<<"rock", "scissors">>, <<"scissors", "rock">>, <<"paper", "paper">>}

\* the requests a client sends for the next round: any pair with an invalid
\* token; for the first round of a game any of FreePairs, for a later round
\* the pair of the round before
RoundRequest(c1, c2) ==
    LET pair == <<Lower(c1), Lower(c2)>>
        history == GAME_STATE.game_history
    IN  \/ Lower(c1) \notin Moves
        \/ Lower(c2) \notin Moves
        \/ /\ history = <<>>
           /\ pair \in FreePairs
        \/ /\ history # <<>>
           /\ pair = <<history[Len(history)].player1_choice, history[Len(history)].player2_choice>>

\* the request threads of the server, and none of them running a handler
Threads == 1..MaxThreads
NoRequests == [t \in Threads |-> "idle"]

-----------------------------------------------------------------------------
(* State after start-up: no data file, so load_leaderboard starts fresh *)

Init ==
    /\ LEADERBOARD = init_cpu_player(EmptyDict)
    /\ GAME_STATE = IdleGameState
    /\ data_file = NoFile
    /\ backup_file = NoFile
    /\ record_calls = [id \in PlayerIds |-> <<>>]
    /\ rounds_played = [id \in PlayerIds |-> 0]
    /\ games_started = 0
    /\ inflight = None
    /\ cpu_reply = NoReply
    /\ in_progress = NoRequests

-----------------------------------------------------------------------------
(* Steps: a handler runs on the server's state, on the inputs of the model *)

\* the store, the session and the files after a handler, or a part of one,
\* that ended with outcome `out`
Effects(out) ==
    /\ LEADERBOARD' = out.LEADERBOARD
    /\ GAME_STATE' = out.GAME_STATE
    /\ IF out.saved THEN save_leaderboard(out.LEADERBOARD)
       ELSE UNCHANGED <<data_file, backup_file>>

\* the server's state after a handler that ran from its first line to its
\* last with outcome `out`, no other request being touched
Handled(out) ==
    /\ Effects(out)
    /\ UNCHANGED in_progress

\* the recorder calls of a handler, appended to the calls made so far
Called(calls, recorded) ==
    IF recorded = <<>> THEN calls
    ELSE LET first == [calls EXCEPT ![recorded[1][1]] = Append(@, recorded[1][2])]
         IN  [first EXCEPT ![recorded[2][1]] = Append(@, recorded[2][2])]

Humans(board) == (DOMAIN board) \ {CPU_ID}

RegisterStep ==
    \E name \in NameInputs, is_cpu \in BOOLEAN :
        LET out == register_player(LEADERBOARD, GAME_STATE, name, is_cpu,
                                   generate_player_id(LEADERBOARD))
        IN  /\ out.response.status = 201 => Cardinality(Humans(LEADERBOARD)) < MaxPlayers
            /\ Handled(out)
            /\ record_calls' = IF out.response.status = 201
                               THEN [record_calls EXCEPT ![out.response.id] = <<>>]
                               ELSE record_calls
            /\ rounds_played' = IF out.response.status = 201
                                THEN [rounds_played EXCEPT ![out.response.id] = 0]
                                ELSE rounds_played
            /\ cpu_reply' = NoReply
            /\ UNCHANGED <<games_started, inflight>>

StatsStep ==
    \E id \in IdInputs :
        /\ Handled(get_player_stats(LEADERBOARD, GAME_STATE, id))
        /\ cpu_reply' = NoReply
        /\ UNCHANGED <<record_calls, rounds_played, games_started, inflight>>

Started(limit) ==
    \E id1 \in IdInputs, id2 \in IdInputs :
        LET out == start_game(LEADERBOARD, GAME_STATE, id1, id2)
        IN  /\ out.response.status = 200 => games_started < limit
            /\ Handled(out)
            /\ games_started' = IF out.response.status = 200 THEN games_started + 1
                                ELSE games_started
            /\ inflight' = IF out.response.status = 200 THEN None ELSE inflight
            /\ cpu_reply' = NoReply
            /\ UNCHANGED <<record_calls, rounds_played>>

StartStep == Started(MaxGames)

Played(c1, c2) ==
    LET out == play_round(LEADERBOARD, GAME_STATE, c1, c2)
    IN  /\ RoundRequest(c1, c2)
        /\ Handled(out)
        /\ record_calls' = Called(record_calls, out.recorded)
        /\ rounds_played' =
              [id \in PlayerIds |->
                  IF out.response.status = 200
                     /\ id \in {GAME_STATE.player1_id, GAME_STATE.player2_id}
                  THEN rounds_played[id] + 1 ELSE rounds_played[id]]
        /\ cpu_reply' = NoReply
        /\ UNCHANGED games_started

PlayStep ==
    \E c1 \in ChoiceInputs, c2 \in ChoiceInputs : Played(c1, c2) /\ UNCHANGED inflight

CpuStep ==
    \E opponent \in IdInputs :
        \E out \in cpu_strategic_choice(LEADERBOARD, GAME_STATE, opponent) :
            /\ Handled(out)
            /\ cpu_reply' = out.response
            /\ UNCHANGED <<record_calls, rounds_played, games_started, inflight>>

ResetStep ==
    /\ Handled(reset_tournament(LEADERBOARD, GAME_STATE))
    /\ cpu_reply' = NoReply
    /\ record_calls' = [id \in PlayerIds |-> <<>>]
    /\ rounds_played' = [id \in PlayerIds |-> 0]
    /\ inflight' = None
    /\ UNCHANGED games_started

Next ==
    \/ RegisterStep
    \/ StartStep
    \/ PlayStep
    \/ ResetStep

Spec == Init /\ [][Next]_vars

-----------------------------------------------------------------------------
(* One game with the client's side of a round: it picks player 1's move and
   keeps it in the frontend, may ask the CPU for its move, and then submits
   both moves to play_round *)

PickStep ==
    \E c \in ChoiceInputs :
        /\ GAME_STATE.game_active
        /\ inflight = None
        /\ \E c2 \in Moves : RoundRequest(c, c2)
        /\ inflight' = c
        /\ UNCHANGED <<in_progress, LEADERBOARD, GAME_STATE, data_file, backup_file, record_calls,
                       rounds_played, games_started, cpu_reply>>

SubmitStep ==
    /\ inflight # None
    /\ \E c2 \in ChoiceInputs : Played(inflight, c2)
    /\ inflight' = None

\* the first game of the run
StartOnceStep == games_started = 0 /\ Started(MaxGames)

NextFair ==
    \/ RegisterStep
    \/ StartOnceStep
    \/ PickStep
    \/ CpuStep
    \/ StatsStep
    \/ SubmitStep

SpecFair == Init /\ [][NextFair]_vars

-----------------------------------------------------------------------------
(* A series of games: a game may be started again, while one runs or after it *)

StartSeriesStep == Started(MaxSeries)

NextSeries ==
    \/ RegisterStep
    \/ StartSeriesStep
    \/ PlayStep
    \/ ResetStep

SpecSeries == Init /\ [][NextSeries]_vars

-----------------------------------------------------------------------------
(* Registration of several humans, before and after the one game of the run *)

RegisterManyStep ==
    \E name \in NameInputs, is_cpu \in BOOLEAN :
        LET out == register_player(LEADERBOARD, GAME_STATE, name, is_cpu,
                                   generate_player_id(LEADERBOARD))
        IN  /\ out.response.status = 201 => Cardinality(Humans(LEADERBOARD)) < MaxRegistered
            /\ Handled(out)
            /\ record_calls' = IF out.response.status = 201
                               THEN [record_calls EXCEPT ![out.response.id] = <<>>]
                               ELSE record_calls
            /\ rounds_played' = IF out.response.status = 201
                                THEN [rounds_played EXCEPT ![out.response.id] = 0]
                                ELSE rounds_played
            /\ cpu_reply' = NoReply
            /\ UNCHANGED <<games_started, inflight>>

NextRegister ==
    \/ RegisterManyStep
    \/ StartOnceStep
    \/ PlayStep

SpecRegister == Init /\ [][NextRegister]_vars

-----------------------------------------------------------------------------
(* The leaderboard: humans of several names register, start games against the
   CPU and win rounds, and the two views are asked for *)

BoardNames == {"A", "a", "b"}

BoardRegisterStep ==
    \E name \in BoardNames :
        LET out == register_player(LEADERBOARD, GAME_STATE, name, FALSE,
                                   generate_player_id(LEADERBOARD))
        IN  /\ Cardinality(Humans(LEADERBOARD)) < MaxBoard
            /\ Handled(out)
            /\ cpu_reply' = NoReply
            /\ UNCHANGED <<record_calls, rounds_played, games_started, inflight>>

BoardStartStep ==
    \E id \in Humans(LEADERBOARD) :
        LET out == start_game(LEADERBOARD, GAME_STATE, id, CPU_ID)
        IN  /\ GAME_STATE.player1_id # id
            /\ games_started < MaxBoard
            /\ Handled(out)
            /\ games_started' = games_started + 1
            /\ cpu_reply' = NoReply
            /\ UNCHANGED <<record_calls, rounds_played, inflight>>

BoardPlayStep ==
    LET out == play_round(LEADERBOARD, GAME_STATE, "rock", "scissors")
    IN  /\ out.response.status = 200
        /\ LEADERBOARD[GAME_STATE.player1_id].score < MaxScore
        /\ Handled(out)
        /\ record_calls' = Called(record_calls, out.recorded)
        /\ rounds_played' =
              [id \in PlayerIds |->
                  IF id \in {GAME_STATE.player1_id, GAME_STATE.player2_id}
                  THEN rounds_played[id] + 1 ELSE rounds_played[id]]
        /\ cpu_reply' = NoReply
        /\ UNCHANGED <<games_started, inflight>>

LeaderboardStep ==
    /\ Handled(get_leaderboard(LEADERBOARD, GAME_STATE))
    /\ cpu_reply' = NoReply
    /\ UNCHANGED <<record_calls, rounds_played, games_started, inflight>>

NextBoard ==
    \/ BoardRegisterStep
    \/ BoardStartStep
    \/ BoardPlayStep
    \/ LeaderboardStep

SpecBoard == Init /\ [][NextBoard]_vars

-----------------------------------------------------------------------------
(* Restarts: the files are damaged or removed from outside, and the process
   starts again and loads the store *)

\* the main file after an edit of its text that leaves it valid JSON
Tampered(file) == [file EXCEPT !.leaderboard[CPU_ID].name = "Eve"]

\* the process starts: GAME_STATE is the module-level one, load_leaderboard() runs
LoadStep ==
    /\ LEADERBOARD' = load_leaderboard(data_file, backup_file)
    /\ GAME_STATE' = IdleGameState
    /\ inflight' = None
    /\ cpu_reply' = NoReply
    /\ UNCHANGED <<in_progress, data_file, backup_file, record_calls, rounds_played, games_started>>

TamperMainStep ==
    /\ Parses(data_file)
    /\ data_file' = Tampered(data_file)
    /\ UNCHANGED <<in_progress, LEADERBOARD, GAME_STATE, backup_file, record_calls, rounds_played,
                   games_started, inflight, cpu_reply>>

DamageMainStep ==
    /\ data_file # NoFile
    /\ data_file' \in {NoFile, Unreadable}
    /\ UNCHANGED <<in_progress, LEADERBOARD, GAME_STATE, backup_file, record_calls, rounds_played,
                   games_started, inflight, cpu_reply>>

DamageBackupStep ==
    /\ backup_file # NoFile
    /\ backup_file' \in {NoFile, Unreadable}
    /\ UNCHANGED <<in_progress, LEADERBOARD, GAME_STATE, data_file, record_calls, rounds_played,
                   games_started, inflight, cpu_reply>>

NextLoad ==
    \/ RegisterStep
    \/ StartOnceStep
    \/ BoardPlayStep
    \/ LoadStep
    \/ TamperMainStep
    \/ DamageMainStep
    \/ DamageBackupStep

SpecLoad == Init /\ [][NextLoad]_vars

-----------------------------------------------------------------------------
(* Requests served at the same time.  app.run serves each request on a thread
   of its own and the handlers take no lock.  play_round checks the session,
   then reads the request body, then plays the round: a thread that waits for
   the body lets other threads run, so whole requests of other threads fit
   between the two checks and the round. *)

\* play_round up to request.get_json(): the thread goes on to read the body
\* when both checks of the session pass, and answers 400 at once otherwise
ThreadGuardStep ==
    \E t \in Threads :
        LET passes == /\ GAME_STATE.game_active
                      /\ ~(GAME_STATE.current_round >= GAME_ROUNDS)
        IN  /\ in_progress[t] = "idle"
            /\ in_progress' = [in_progress EXCEPT ![t] = IF passes THEN "reading" ELSE "idle"]
            /\ cpu_reply' = NoReply
            /\ UNCHANGED <<LEADERBOARD, GAME_STATE, data_file, backup_file, record_calls,
                           rounds_played, games_started, inflight>>

\* play_round from request.get_json() to its reply, on the store and the
\* session as they are by then
ThreadBodyStep ==
    \E t \in Threads, c1 \in ChoiceInputs, c2 \in ChoiceInputs :
        LET out == play_round_body(LEADERBOARD, GAME_STATE, c1, c2)
            seated == {GAME_STATE.player1_id, GAME_STATE.player2_id} \subseteq PlayerIds
        IN  /\ in_progress[t] = "reading"
            /\ RoundRequest(c1, c2)
            /\ Effects(out)
            /\ in_progress' = [in_progress EXCEPT ![t] = "idle"]
            /\ record_calls' = IF seated THEN Called(record_calls, out.recorded)
                               ELSE record_calls
            /\ rounds_played' =
                  [id \in PlayerIds |->
                      IF out.response.status = 200
                         /\ id \in {GAME_STATE.player1_id, GAME_STATE.player2_id}
                      THEN rounds_played[id] + 1 ELSE rounds_played[id]]
            /\ cpu_reply' = NoReply
            /\ UNCHANGED <<games_started, inflight>>

NextThreads ==
    \/ RegisterStep
    \/ StartOnceStep
    \/ ThreadGuardStep
    \/ ThreadBodyStep
    \/ ResetStep

SpecThreads == Init /\ [][NextThreads]_vars

-----------------------------------------------------------------------------
(* The first rounds of a game between the human p1 and the CPU, played with
   any pair of moves *)

Registered == Put(init_cpu_player(EmptyDict), "p1", NewPlayerRecord("p1", "Ann"))

InitRounds ==
    /\ LEADERBOARD = Registered
    /\ GAME_STATE = start_game(Registered, IdleGameState, "p1", CPU_ID).GAME_STATE
    /\ data_file = SavedDocument(Registered)
    /\ backup_file = SavedDocument(Registered)
    /\ record_calls = [id \in PlayerIds |-> <<>>]
    /\ rounds_played = [id \in PlayerIds |-> 0]
    /\ games_started = 1
    /\ inflight = None
    /\ cpu_reply = NoReply
    /\ in_progress = NoRequests

AnyRoundStep ==
    \E c1 \in ChoiceInputs, c2 \in ChoiceInputs :
        LET out == play_round(LEADERBOARD, GAME_STATE, c1, c2)
        IN  /\ GAME_STATE.current_round < MaxRounds
            /\ Handled(out)
            /\ record_calls' = Called(record_calls, out.recorded)
            /\ rounds_played' =
                  [id \in PlayerIds |->
                      IF out.response.status = 200
                         /\ id \in {GAME_STATE.player1_id, GAME_STATE.player2_id}
                      THEN rounds_played[id] + 1 ELSE rounds_played[id]]
            /\ UNCHANGED <<games_started, inflight, cpu_reply>>

NextRounds == AnyRoundStep

SpecRounds == InitRounds /\ [][NextRounds]_vars

-----------------------------------------------------------------------------
(* The recorder and the predictor on their own: the recorder is called with
   any sequence of moves on the human p1, and with rock on the CPU *)

InitRecorder ==
    /\ LEADERBOARD = Registered
    /\ GAME_STATE = IdleGameState
    /\ data_file = SavedDocument(Registered)
    /\ backup_file = NoFile
    /\ record_calls = [id \in PlayerIds |-> <<>>]
    /\ rounds_played = [id \in PlayerIds |-> 0]
    /\ games_started = 0
    /\ inflight = None
    /\ cpu_reply = NoReply
    /\ in_progress = NoRequests

RecorderInputs == ({"p1"} \X {"rock", "paper", "scissors", "Lizard"}) \cup {<<CPU_ID, "rock">>, <<"p9", "rock">>}

RecordStep ==
    \E call \in RecorderInputs :
        /\ Len(record_calls["p1"]) + Len(record_calls[CPU_ID]) < MaxRecords
        /\ LEADERBOARD' = record_player_choice(LEADERBOARD, call[1], call[2])
        /\ record_calls' = IF call[1] \in PlayerIds /\ call[2] \in Moves
                           THEN [record_calls EXCEPT ![call[1]] = Append(@, call[2])]
                           ELSE record_calls
        /\ cpu_reply' = NoReply
        /\ UNCHANGED <<in_progress, GAME_STATE, data_file, backup_file, rounds_played, games_started, inflight>>

NextRecorder ==
    \/ RecordStep
    \/ CpuStep

SpecRecorder == InitRecorder /\ [][NextRecorder]_vars

-----------------------------------------------------------------------------
(* The recorder on a long run of moves of the human p1: more calls than the
   window of move_sequence holds, with rock and paper in any order and
   scissors at any place among them *)

WindowStep ==
    \E choice \in Moves :
        /\ Len(record_calls["p1"]) < MaxWindow
        /\ choice = "scissors" =>
              Cardinality({i \in DOMAIN record_calls["p1"] : record_calls["p1"][i] = choice})
                  < MaxScissors
        /\ LEADERBOARD' = record_player_choice(LEADERBOARD, "p1", choice)
        /\ record_calls' = [record_calls EXCEPT !["p1"] = Append(@, choice)]
        /\ UNCHANGED <<in_progress, GAME_STATE, data_file, backup_file, rounds_played,
                       games_started, inflight, cpu_reply>>

NextWindow == WindowStep

SpecWindow == InitRecorder /\ [][NextWindow]_vars

-----------------------------------------------------------------------------
(* A whole game between the human p1 and the CPU, each round won by either
   seat or tied, with invalid requests and a reset at any time *)

SessionPairs ==
    {<<"rock", "scissors">>, <<"rock", "paper">>, <<"paper", "paper">>, <<"Lizard", "rock">>}

SessionPlayStep ==
    \E pair \in SessionPairs :
        LET out == play_round(LEADERBOARD, GAME_STATE, pair[1], pair[2])
        IN  /\ Handled(out)
            /\ record_calls' = Called(record_calls, out.recorded)
            /\ rounds_played' =
                  [id \in PlayerIds |->
                      IF out.response.status = 200
                         /\ id \in {GAME_STATE.player1_id, GAME_STATE.player2_id}
                      THEN rounds_played[id] + 1 ELSE rounds_played[id]]
            /\ cpu_reply' = NoReply
            /\ UNCHANGED <<games_started, inflight>>

NextSession ==
    \/ SessionPlayStep
    \/ ResetStep

SpecSession == InitRounds /\ [][NextSession]_vars

-----------------------------------------------------------------------------
(* Properties *)

\* occurrences of move m among the moves `done`
CountOf(done, m) == Cardinality({i \in 1..Len(done) : done[i] = m})

\* the last n entries of `done`, or all of it when it has fewer
LastOf(done, n) ==
    IF Len(done) <= n THEN done ELSE SubSeq(done, Len(done) - n + 1, Len(done))

\* positions of `done` where a, b, c follow each other
TripleCount(done, a, b, c) ==
    Cardinality({i \in 1..(Len(done) - 2) :
                    done[i] = a /\ done[i + 1] = b /\ done[i + 2] = c})

\* the record of a human holds the moves `done`, and nothing else
HoldsExactly(player_data, done) ==
    /\ player_data.choice_history = [m \in Moves |-> CountOf(done, m)]
    /\ player_data.move_sequence = LastOf(done, SEQUENCE_WINDOW)
    /\ \A a \in Moves, b \in Moves, c \in Moves :
          Get(player_data.pattern_history, <<a, b>>, ZeroCounts)[c] = TripleCount(done, a, b, c)

\* C1: whenever the predictor can be called, and whatever move the client
\* holds for the round in play, the record of every human holds exactly the
\* moves handed in by the play_round calls accepted so far, so the record the
\* predictor reads is a function of the completed rounds alone.
C1_PredictorSeesCompletedRounds ==
    \A id \in Humans(LEADERBOARD) : HoldsExactly(LEADERBOARD[id], record_calls[id])

\* the predictor has answered about p1, who has completed rounds, while the
\* client holds its move for the round in play
C1_Witness ==
    /\ inflight \in Moves
    /\ cpu_reply.status = 200
    /\ cpu_reply.opponent_id = "p1"
    /\ Len(record_calls["p1"]) >= 5
    /\ GAME_STATE.game_active

\* C2: a started game is active exactly while fewer than 10 rounds were
\* accepted, each accepted round is one record of the history, and once the
\* game is not active every play_round call is rejected with "No active game"
\* and leaves the store and the session as they are.
C2_TenRoundsThenRejected ==
    /\ GAME_STATE.current_round = Len(GAME_STATE.game_history)
    /\ GAME_STATE.current_round <= GAME_ROUNDS
    /\ GAME_STATE.player1_id # None =>
          (GAME_STATE.game_active <=> GAME_STATE.current_round < GAME_ROUNDS)
    /\ ~GAME_STATE.game_active =>
          \A c1 \in ChoiceInputs, c2 \in ChoiceInputs :
              play_round(LEADERBOARD, GAME_STATE, c1, c2)
                  = Reject(LEADERBOARD, GAME_STATE, 400, "No active game")

\* the tenth round of a game has been accepted
C2_Witness ==
    /\ ~GAME_STATE.game_active
    /\ GAME_STATE.current_round = GAME_ROUNDS
    /\ Len(GAME_STATE.game_history) = GAME_ROUNDS

\* C3: a step that ends with a reply of the predictor at hand leaves the
\* player store, the session and both files as they were.
C3_PredictNeverMutates ==
    [][cpu_reply' # NoReply =>
          UNCHANGED <<LEADERBOARD, GAME_STATE, data_file, backup_file>>]_vars

\* the predictor has answered, from a pattern, about a human who played the CPU
C3_Witness ==
    /\ cpu_reply.status = 200
    /\ cpu_reply.opponent_id = "p1"
    /\ cpu_reply.result.strategy_used = "pattern"
    /\ rounds_played[CPU_ID] > 0

\* two replies of the predictor about the same opponent, one right after the other
TwoReplies ==
    /\ cpu_reply.status = 200
    /\ cpu_reply'.status = 200
    /\ cpu_reply'.opponent_id = cpu_reply.opponent_id

\* C4 as claimed: two calls in a row give the same strategy_used and the same
\* confidence.
C4_SamePredictionTwice ==
    [][TwoReplies =>
          /\ cpu_reply'.result.strategy_used = cpu_reply.result.strategy_used
          /\ cpu_reply'.result.confidence = cpu_reply.result.confidence]_vars

\* C4 as amended: two calls in a row give the same confidence, and the same
\* strategy_used except that one may say "frequency" and the other
\* "random_variation".
C4_SamePredictionUpToVariation ==
    [][TwoReplies =>
          /\ cpu_reply'.result.confidence = cpu_reply.result.confidence
          /\ \/ cpu_reply'.result.strategy_used = cpu_reply.result.strategy_used
             \/ {cpu_reply'.result.strategy_used, cpu_reply.result.strategy_used}
                    = {"frequency", "random_variation"}]_vars

\* the predictor has answered with a random variation of the frequency strategy
C4_Witness ==
    /\ cpu_reply.status = 200
    /\ cpu_reply.result.strategy_used = "random_variation"
    /\ cpu_reply.result.confidence > 40

\* C5: the counts of a human add up to the number of recorder calls made on
\* it, and the CPU's record stays the one it was created with.
C5_RecorderCounts ==
    /\ \A id \in Humans(LEADERBOARD) :
          Total(LEADERBOARD[id].choice_history) = Len(record_calls[id])
    /\ LEADERBOARD[CPU_ID].choice_history = ZeroCounts
    /\ "move_sequence" \notin DOMAIN LEADERBOARD[CPU_ID]
    /\ "pattern_history" \notin DOMAIN LEADERBOARD[CPU_ID]

\* the recorder has been called on the human and on the CPU
C5_Witness ==
    /\ Len(record_calls["p1"]) >= 3
    /\ Len(record_calls[CPU_ID]) >= 2

\* C6 as claimed: the counts of a human add up to the number of accepted
\* rounds it took part in since it registered.
C6_OneRecordPerRound ==
    \A id \in Humans(LEADERBOARD) :
        Total(LEADERBOARD[id].choice_history) = rounds_played[id]

\* C7 as claimed: start_game rejects, without a change, a call whose ids are
\* empty, not registered or equal; any other call starts a fresh game.
C7_StartRequiresDistinctRegistered ==
    \A id1 \in IdInputs, id2 \in IdInputs :
        LET out == start_game(LEADERBOARD, GAME_STATE, id1, id2)
            refused == \/ Strip(id1) \notin DOMAIN LEADERBOARD
                       \/ Strip(id2) \notin DOMAIN LEADERBOARD
                       \/ Strip(id1) = Strip(id2)
        IN  IF refused
            THEN /\ out.response.status = 400
                 /\ out.LEADERBOARD = LEADERBOARD
                 /\ out.GAME_STATE = GAME_STATE
            ELSE /\ out.response.status = 200
                 /\ out.LEADERBOARD = LEADERBOARD
                 /\ out.GAME_STATE.game_active
                 /\ out.GAME_STATE.current_round = 0
                 /\ out.GAME_STATE.player1_round_wins = 0
                 /\ out.GAME_STATE.player2_round_wins = 0
                 /\ out.GAME_STATE.game_history = <<>>

\* C8 as claimed: while a game is active no start_game call is accepted, so
\* the running game keeps its round, its wins, its history and its players.
C8_NoStartWhileActive ==
    [][GAME_STATE.game_active => games_started' = games_started]_vars

\* a beats b: rock beats scissors, paper beats rock, scissors beats paper
Beats(a, b) ==
    <<a, b>> \in {<<"rock", "scissors">>, <<"paper", "rock">>, <<"scissors", "paper">>}

\* C9: every round of the history is a tie iff the moves are equal, won by
\* player 1 iff its move beats the other, and by player 2 otherwise; and
\* COUNTER_MOVES[m] beats m.
C9_RoundResolution ==
    /\ \A k \in 1..Len(GAME_STATE.game_history) :
          LET round == GAME_STATE.game_history[k]
          IN  /\ round.result = "tie" <=> round.player1_choice = round.player2_choice
              /\ round.result = "player1" <=> Beats(round.player1_choice, round.player2_choice)
              /\ round.result = "player2" <=> Beats(round.player2_choice, round.player1_choice)
    /\ \A m \in Moves : Beats(COUNTER_MOVES[m], m)

\* three rounds were resolved, one with each result
C9_Witness ==
    /\ Len(GAME_STATE.game_history) = 3
    /\ {GAME_STATE.game_history[k].result : k \in 1..3} = {"tie", "player1", "player2"}

\* a step that is an accepted round
RoundAccepted ==
    /\ GAME_STATE.game_active
    /\ GAME_STATE'.current_round = GAME_STATE.current_round + 1

\* C10 as claimed: the tenth round adds 1 to games_won of the player with
\* more round wins, and of nobody else, and 1 to games_played of both players
\* of the game; a round before the tenth changes neither counter.
C10_TenthRoundSettlesGame ==
    [][RoundAccepted =>
          LET game == GAME_STATE'
              winner == IF game.player1_round_wins > game.player2_round_wins
                        THEN game.player1_id
                        ELSE IF game.player2_round_wins > game.player1_round_wins
                        THEN game.player2_id
                        ELSE None
              tenth == game.current_round = GAME_ROUNDS
          IN  \A id \in DOMAIN LEADERBOARD :
                  /\ LEADERBOARD'[id].games_won = LEADERBOARD[id].games_won
                        + (IF tenth /\ id = winner THEN 1 ELSE 0)
                  /\ LEADERBOARD'[id].games_played = LEADERBOARD[id].games_played
                        + (IF tenth /\ id \in {game.player1_id, game.player2_id} THEN 1 ELSE 0)]_vars

\* the player with more round wins in the session `game`, or None
WinnerOf(game) ==
    IF game.player1_round_wins > game.player2_round_wins THEN game.player1_id
    ELSE IF game.player2_round_wins > game.player1_round_wins THEN game.player2_id
    ELSE None

InvalidTokens == {"Lizard"}

\* C12: while a game is active, a play_round call with an invalid token for
\* either player is rejected with "Invalid choice" and leaves the store and
\* the session, and so the round to be played, as they are.
C12_InvalidMoveRejected ==
    GAME_STATE.game_active =>
        \A c1 \in ChoiceInputs, c2 \in ChoiceInputs :
            (c1 \in InvalidTokens \/ c2 \in InvalidTokens) =>
                play_round(LEADERBOARD, GAME_STATE, c1, c2)
                    = Reject(LEADERBOARD, GAME_STATE, 400, "Invalid choice")

\* a game of the human p1 is under way, rounds were recorded, and a call
\* with an invalid token for player 2 only is answered with status 400
C12_Witness ==
    /\ GAME_STATE.game_active
    /\ GAME_STATE.player1_id = "p1"
    /\ GAME_STATE.current_round >= 2
    /\ Total(LEADERBOARD["p1"].choice_history) >= 2
    /\ play_round(LEADERBOARD, GAME_STATE, "rock", "Lizard").response.status = 400

\* the handler left the store and the session as they were, with an error reply
Refused(out) ==
    /\ out.response.status >= 400
    /\ out.LEADERBOARD = LEADERBOARD
    /\ out.GAME_STATE = GAME_STATE
    /\ ~out.saved

\* C13 as claimed: start_game, get_player_stats and cpu_strategic_choice
\* answer an id that is not registered with an error, and change nothing.
C13_UnregisteredIdRejected ==
    \A id \in IdInputs :
        (Strip(id) # "" /\ Strip(id) \notin DOMAIN LEADERBOARD) =>
            /\ Refused(get_player_stats(LEADERBOARD, GAME_STATE, id))
            /\ \A other \in IdInputs :
                  /\ Refused(start_game(LEADERBOARD, GAME_STATE, id, other))
                  /\ Refused(start_game(LEADERBOARD, GAME_STATE, other, id))
            /\ \A out \in cpu_strategic_choice(LEADERBOARD, GAME_STATE, id) : Refused(out)

\* names sent to register_player: empty, blank, CPU in three letter cases, a human's
RegisterNames == {"", " ", "cpu", "Cpu", "CPU", " Ann "}
CpuNames == {"cpu", "Cpu", "CPU"}
BlankNames == {"", " "}

\* the reply and the effect of register_player on (name, is_cpu) in the
\* current state; cpu_first tells whether is_cpu is looked at before the name
RegistrationContract(cpu_first) ==
    \A name \in RegisterNames, is_cpu \in BOOLEAN :
        LET new_id == generate_player_id(LEADERBOARD)
            out == register_player(LEADERBOARD, GAME_STATE, name, is_cpu, new_id)
            as_cpu == IF cpu_first THEN is_cpu \/ name \in CpuNames
                      ELSE name \notin BlankNames /\ (is_cpu \/ name \in CpuNames)
        IN  new_id \notin DOMAIN LEADERBOARD =>
            IF as_cpu
            THEN /\ out.response.status = 200
                 /\ out.response.id = CPU_ID
                 /\ out.LEADERBOARD = LEADERBOARD
                 /\ out.GAME_STATE = GAME_STATE
            ELSE IF name \in BlankNames
            THEN Refused(out)
            ELSE /\ out.response.status = 201
                 /\ out.response.id = new_id
                 /\ DOMAIN out.LEADERBOARD = (DOMAIN LEADERBOARD) \cup {new_id}
                 /\ \A id \in DOMAIN LEADERBOARD : out.LEADERBOARD[id] = LEADERBOARD[id]
                 /\ out.LEADERBOARD[new_id] = NewPlayerRecord(new_id, "Ann")
                 /\ out.GAME_STATE = GAME_STATE

\* C14 as claimed: is_cpu set, or the name CPU in any letter case, always
\* gives the CPU id without a change; any other non-empty name adds one zeroed
\* record with a fresh id and leaves the others alone; an empty name is
\* rejected without a change.
C14_RegistrationCpuAlways == RegistrationContract(TRUE)

\* C14 as amended: the same, but an empty name is rejected also when is_cpu
\* is set.
C14_RegistrationNameFirst == RegistrationContract(FALSE)

\* two humans of the same name are registered, the first one after it scored
C14_Witness ==
    /\ {"p1", "p2"} \subseteq DOMAIN LEADERBOARD
    /\ LEADERBOARD["p1"].name = LEADERBOARD["p2"].name
    /\ LEADERBOARD["p1"].score > 0
    /\ LEADERBOARD["p2"] = NewPlayerRecord("p2", "Ann")

\* the store and the session that reset_tournament leaves
AfterReset == reset_tournament(LEADERBOARD, GAME_STATE)

\* reset leaves the CPU alone in the store, with zeroed stats, and an idle session
ResetClears ==
    /\ DOMAIN AfterReset.LEADERBOARD = {CPU_ID}
    /\ AfterReset.LEADERBOARD[CPU_ID].score = 0
    /\ AfterReset.LEADERBOARD[CPU_ID].games_won = 0
    /\ AfterReset.LEADERBOARD[CPU_ID].games_played = 0
    /\ AfterReset.LEADERBOARD[CPU_ID].choice_history = ZeroCounts
    /\ ~AfterReset.GAME_STATE.game_active
    /\ AfterReset.GAME_STATE.current_round = 0
    /\ AfterReset.GAME_STATE.player1_round_wins = 0
    /\ AfterReset.GAME_STATE.player2_round_wins = 0
    /\ AfterReset.GAME_STATE.game_history = <<>>
    /\ AfterReset.GAME_STATE.previous_winner_id = None
    /\ AfterReset.GAME_STATE.previous_winner_name = None

\* after reset every play_round call is rejected and changes nothing
ResetStopsPlay ==
    \A c1 \in ChoiceInputs, c2 \in ChoiceInputs :
        play_round(AfterReset.LEADERBOARD, AfterReset.GAME_STATE, c1, c2)
            = Reject(AfterReset.LEADERBOARD, AfterReset.GAME_STATE, 400, "No active game")

\* after reset no game starts before a player is registered
ResetNeedsNewPlayers ==
    \A id1 \in IdInputs, id2 \in IdInputs :
        start_game(AfterReset.LEADERBOARD, AfterReset.GAME_STATE, id1, id2).response.status = 400

\* C15 as claimed: from any state, reset leaves only the zeroed CPU record and
\* an idle session without a previous winner, and afterwards play_round is
\* rejected until a game is started, which takes newly registered players.
C15_ResetClearsAll == ResetClears /\ ResetStopsPlay /\ ResetNeedsNewPlayers

\* the move that beats m
BeaterOf(m) == CHOOSE c \in Moves : Beats(c, m)

\* rock before paper before scissors
Rank(m) == CASE m = "rock" -> 1 [] m = "paper" -> 2 [] m = "scissors" -> 3

\* the move with the largest count, ties broken rock, then paper, then scissors
MostFrequent(counter) ==
    CHOOSE m \in Moves :
        \A o \in Moves :
            \/ counter[m] > counter[o]
            \/ counter[m] = counter[o] /\ Rank(m) <= Rank(o)

\* c is 100 * num / den rounded to a nearest integer
NearestPercent(c, num, den) ==
    /\ 2 * den * c - den <= 200 * num
    /\ 200 * num <= 2 * den * c + den

\* the spec's scenario: a human whose rounds end in rock, rock, with paper
\* four times and rock once after (rock, rock)
ScenarioMoves ==
    <<"rock", "rock", "paper", "rock", "rock", "paper", "rock", "rock", "paper",
      "rock", "rock", "paper", "rock", "rock", "rock">>
ScenarioBoard ==
    Put(init_cpu_player(EmptyDict), "p1", RecordedAll(NewPlayerRecord("p1", "Ann"), ScenarioMoves))

\* C16: a "pattern" reply holds the move that beats the most frequent
\* follower of the opponent's last two moves, with that follower's share as
\* confidence; a "frequency" reply holds the move that beats the opponent's
\* most frequent move, ties broken rock, paper, scissors; the scenario gives
\* scissors, "pattern", 80.
C16_DeterministicMoves ==
    /\ (cpu_reply.status = 200 /\ cpu_reply.opponent_id \in Humans(LEADERBOARD)) =>
          LET player_data == LEADERBOARD[cpu_reply.opponent_id]
              result == cpu_reply.result
              followers == player_data.pattern_history[PatternKey(player_data.move_sequence)]
          IN  /\ result.strategy_used = "pattern" =>
                    /\ result.choice = BeaterOf(MostFrequent(followers))
                    /\ NearestPercent(result.confidence,
                                      followers[MostFrequent(followers)], Total(followers))
              /\ result.strategy_used = "frequency" =>
                    result.choice = BeaterOf(MostFrequent(player_data.choice_history))
    /\ ScenarioBoard["p1"].pattern_history[<<"rock", "rock">>]
          = [rock |-> 1, paper |-> 4, scissors |-> 0]
    /\ get_strategic_cpu_choice(ScenarioBoard, "p1")
          = {[choice |-> "scissors", strategy_used |-> "pattern", confidence |-> 80]}

\* a "frequency" reply about a human who played rock and paper three times each
C16_Witness ==
    /\ cpu_reply.status = 200
    /\ cpu_reply.opponent_id = "p1"
    /\ cpu_reply.result.strategy_used = "frequency"
    /\ cpu_reply.result.choice = "paper"
    /\ LEADERBOARD["p1"].choice_history = [rock |-> 3, paper |-> 3, scissors |-> 0]

\* the largest count of a counter
TopCount(counter) == counter[MostFrequent(counter)]

\* the strategies the cascade allows for a record of the store
ExpectedStrategies(player_data) ==
    LET history == player_data.choice_history
        total == Total(history)
        moveSequence == IF "move_sequence" \in DOMAIN player_data
                        THEN player_data.move_sequence ELSE <<>>
        patternHistory == IF "pattern_history" \in DOMAIN player_data
                          THEN player_data.pattern_history ELSE EmptyDict
        key == <<moveSequence[Len(moveSequence) - 1], moveSequence[Len(moveSequence)]>>
        pattern == /\ Len(moveSequence) >= 2
                   /\ key \in DOMAIN patternHistory
                   /\ Total(patternHistory[key]) >= 3
                   /\ 2 * TopCount(patternHistory[key]) > Total(patternHistory[key])
    IN  IF total < 5 THEN {"learning"}
        ELSE IF pattern THEN {"pattern"}
        ELSE IF 5 * TopCount(history) > 2 * total THEN {"frequency", "random_variation"}
        ELSE {"weighted"}

\* C17: for every registered player the predictor can answer with exactly
\* the strategies of the cascade: "learning" with confidence = total iff
\* total < 5, else "pattern" iff the last two moves have at least 3 recorded
\* followers and one of them more than half the time, else "frequency" or
\* "random_variation" iff the top share of the history exceeds 0.4, else
\* "weighted"; and a reply at hand is one of them.
C17_DecisionCascade ==
    /\ \A id \in DOMAIN LEADERBOARD :
          LET results == get_strategic_cpu_choice(LEADERBOARD, id)
          IN  /\ {r.strategy_used : r \in results} = ExpectedStrategies(LEADERBOARD[id])
              /\ \A r \in results :
                    r.strategy_used = "learning" =>
                        r.confidence = Total(LEADERBOARD[id].choice_history)
    /\ (cpu_reply.status = 200 /\ cpu_reply.opponent_id \in DOMAIN LEADERBOARD) =>
          cpu_reply.result.strategy_used
              \in ExpectedStrategies(LEADERBOARD[cpu_reply.opponent_id])

\* a "weighted" reply about a human whose top move has two of five rounds
C17_Witness ==
    /\ cpu_reply.status = 200
    /\ cpu_reply.opponent_id = "p1"
    /\ cpu_reply.result.strategy_used = "weighted"
    /\ Total(LEADERBOARD["p1"].choice_history) = 5
    /\ TopCount(LEADERBOARD["p1"].choice_history) = 2

\* the two views of the leaderboard in the current state
Views == get_leaderboard(LEADERBOARD, GAME_STATE).response

\* the place of a player in the store: the CPU, then the humans as they registered
StoreIndex(id) == CASE id = CPU_ID -> 0 [] id = "p1" -> 1 [] id = "p2" -> 2 [] id = "p3" -> 3

\* the lower-case name of an entry, as its place in the order of strings
NameKey(entry) == KeyRank(Lower(entry.name))

\* the view lists every player of `board` once, with its name and score
ListsAll(view, board) ==
    /\ Len(view) = Cardinality(DOMAIN board)
    /\ {view[i].id : i \in 1..Len(view)} = DOMAIN board
    /\ \A i \in 1..Len(view) :
          /\ view[i].name = board[view[i].id].name
          /\ view[i].score = board[view[i].id].score

\* ascending by lower-case name, equal names in store order
NameOrdered(view) ==
    \A i \in 1..Len(view), j \in 1..Len(view) :
        i < j =>
            \/ NameKey(view[i]) < NameKey(view[j])
            \/ /\ NameKey(view[i]) = NameKey(view[j])
               /\ StoreIndex(view[i].id) < StoreIndex(view[j].id)

\* descending by score, equal scores ascending by lower-case name
ScoreOrdered(view) ==
    \A i \in 1..Len(view), j \in 1..Len(view) :
        i < j =>
            \/ view[i].score > view[j].score
            \/ /\ view[i].score = view[j].score
               /\ NameKey(view[i]) <= NameKey(view[j])

\* the store after the player in seat 1 of `game` won n more rounds of it
RECURSIVE RoundsWon(_, _, _)
RoundsWon(board, game, n) ==
    IF n = 0 THEN board
    ELSE LET out == play_round(board, game, "rock", "scissors")
         IN  RoundsWon(out.LEADERBOARD, out.GAME_STATE, n - 1)

\* the store after `id` started a game against the CPU and won n rounds
WithWins(board, id, n) ==
    RoundsWon(board, start_game(board, IdleGameState, id, CPU_ID).GAME_STATE, n)

\* the store with `name` registered as `id`
WithPlayer(board, id, name) ==
    register_player(board, IdleGameState, name, FALSE, id).LEADERBOARD

\* the spec's scenario: A with score 3, b with score 3, C with score 5
ScoreScenario ==
    WithWins(WithWins(WithWins(
        WithPlayer(WithPlayer(WithPlayer(init_cpu_player(EmptyDict), "p1", "A"), "p2", "b"),
                   "p3", "C"),
        "p1", 3), "p2", 3), "p3", 5)

NamesOf(view) == [i \in 1..Len(view) |-> view[i].name]

\* C18: both views list every player once; sorted_by_name ascends by
\* lower-case name and keeps store order among equal names; sorted_by_score
\* descends by score and ascends by lower-case name among equal scores;
\* A(3), b(3), C(5) with the CPU (0) gives C, A, b, CPU.
C18_LeaderboardViews ==
    /\ Views.status = 200
    /\ Views.total_players = Cardinality(DOMAIN LEADERBOARD)
    /\ ListsAll(Views.sorted_by_name, LEADERBOARD)
    /\ ListsAll(Views.sorted_by_score, LEADERBOARD)
    /\ NameOrdered(Views.sorted_by_name)
    /\ ScoreOrdered(Views.sorted_by_score)
    /\ LET scenario == get_leaderboard(ScoreScenario, IdleGameState).response
       IN  /\ NamesOf(scenario.sorted_by_score) = <<"C", "A", "b", "CPU">>
           /\ NamesOf(scenario.sorted_by_name) = <<"A", "b", "C", "CPU">>
           /\ [i \in 1..4 |-> scenario.sorted_by_score[i].score] = <<5, 3, 3, 0>>

\* b registered before A and both scored twice: the score view lists A first,
\* and a stands before A in the name view of a store where a registered first
C18_Witness ==
    /\ DOMAIN LEADERBOARD = {CPU_ID, "p1", "p2"}
    /\ LEADERBOARD["p1"].name = "b"
    /\ LEADERBOARD["p2"].name = "A"
    /\ LEADERBOARD["p1"].score = 2
    /\ LEADERBOARD["p2"].score = 2
    /\ [i \in 1..3 |-> Views.sorted_by_score[i].id] = <<"p2", "p1", CPU_ID>>

\* the store a restart would load from the files as they are
Loaded == load_leaderboard(data_file, backup_file)

\* the store that holds the CPU singleton only
CpuOnly == Put(EmptyDict, CPU_ID, CpuRecord)

\* the file is a document that was edited after it was written
Mismatched(file) ==
    /\ file \notin {NoFile, Unreadable}
    /\ file.checksum # <<"sha256", file.leaderboard>>

\* the file is a document, whatever its checksum
Readable(file) == file \notin {NoFile, Unreadable}

\* a step that ran save_leaderboard and wrote a new main file
SaveWritten ==
    /\ data_file' # data_file
    /\ data_file' = [leaderboard |-> LEADERBOARD', checksum |-> <<"sha256", LEADERBOARD'>>]

\* C19: a restart on a main file that holds the saved store loads that store;
\* on a main file that is unreadable or fails its checksum it loads the
\* store of the backup; with no main file, or with a main file that cannot
\* be used and no readable backup, it starts with the CPU alone; the CPU is
\* in the store on every path; and a save leaves in the backup what the main
\* file held before it.
C19_LoadCascade ==
    /\ [](data_file = [leaderboard |-> LEADERBOARD, checksum |-> <<"sha256", LEADERBOARD>>]
             => Loaded = LEADERBOARD)
    /\ []((data_file = Unreadable \/ Mismatched(data_file)) =>
             IF Readable(backup_file)
             THEN /\ \A id \in DOMAIN backup_file.leaderboard :
                        Loaded[id] = backup_file.leaderboard[id]
                  /\ DOMAIN Loaded = (DOMAIN backup_file.leaderboard) \cup {CPU_ID}
             ELSE Loaded = CpuOnly)
    /\ [](data_file = NoFile => Loaded = CpuOnly)
    /\ [](CPU_ID \in DOMAIN Loaded)
    /\ [][SaveWritten =>
             backup_file' = IF data_file = NoFile THEN backup_file ELSE data_file]_vars

\* after a restart on an edited main file the store is the backup's, in
\* which the human has one round less than in the main file
C19_Witness ==
    /\ Mismatched(data_file)
    /\ Readable(backup_file)
    /\ LEADERBOARD = backup_file.leaderboard
    /\ "p1" \in DOMAIN LEADERBOARD
    /\ "p1" \in DOMAIN data_file.leaderboard
    /\ data_file.leaderboard["p1"].score = LEADERBOARD["p1"].score + 1
    /\ GAME_STATE = IdleGameState

-----------------------------------------------------------------------------
\* what every run of whole requests, one after the other, keeps: the round
\* counter within the ten rounds of a game
RoundsWithinGame == GAME_STATE.current_round <= GAME_ROUNDS

\* each accepted round counted once and listed once
RoundsListedOnce == GAME_STATE.current_round = Len(GAME_STATE.game_history)

\* the session that a reset left is not played on: without seated players it
\* is the idle session still
ResetSessionUntouched == GAME_STATE.player1_id = None => GAME_STATE = IdleGameState

\* no round is played on player records that are gone
NoRoundOnRemoved ==
    \A t \in Threads : \A c1 \in ChoiceInputs, c2 \in ChoiceInputs :
        in_progress[t] = "reading" =>
            play_round_body(LEADERBOARD, GAME_STATE, c1, c2).response.status # 500

\* C20: playRound and reset, or two playRound calls, served at the same time
\* leave what some serial order of them leaves: currentRound never exceeds
\* 10, every accepted round raised currentRound and grew the history exactly
\* once, and playRound never runs on a session or on player records that a
\* reset has removed
C20_ConcurrentAsSerial ==
    /\ RoundsWithinGame
    /\ RoundsListedOnce
    /\ ResetSessionUntouched
    /\ NoRoundOnRemoved

-----------------------------------------------------------------------------
\* the moves the recorder was called with on p1, and what it keeps of them
Done == record_calls["p1"]
MoveSequence == Get(LEADERBOARD["p1"], "move_sequence", <<>>)
Smaller(a, b) == IF a <= b THEN a ELSE b

\* C21: after n valid recorder calls on a human, move_sequence is the last
\* min(n, 10) recorded moves in call order: it never holds more than 10
\* moves, and the move it loses when full is the oldest one.
C21_MoveSequenceWindow ==
    /\ Len(MoveSequence) = Smaller(Len(Done), SEQUENCE_WINDOW)
    /\ Len(MoveSequence) <= SEQUENCE_WINDOW
    /\ \A i \in 1..Len(MoveSequence) :
          MoveSequence[i] = Done[Len(Done) - Len(MoveSequence) + i]

\* two moves have left the full window, and the first of them differs from
\* the oldest move kept
C21_Witness ==
    /\ Len(Done) = SEQUENCE_WINDOW + 2
    /\ Len(MoveSequence) = SEQUENCE_WINDOW
    /\ Done[1] # MoveSequence[1]
    /\ Done[Len(Done)] # Done[Len(Done) - 1]

-----------------------------------------------------------------------------
\* the pattern counters the recorder keeps of p1
PatternHistory == Get(LEADERBOARD["p1"], "pattern_history", EmptyDict)

\* the sum of the counts under the keys `keys` of the pattern counters `ph`
RECURSIVE LeafSum(_, _)
LeafSum(ph, keys) ==
    IF keys = {} THEN 0
    ELSE LET key == CHOOSE k \in keys : TRUE
         IN  Total(ph[key]) + LeafSum(ph, keys \ {key})

\* C22: the pattern counters are exact, whatever has left the window of
\* move_sequence: the count of c under the key (a, b) is the number of
\* places where a, b, c follow each other in all the moves recorded (a
\* missing key counting as zero), all counts together are max(0, n - 2), and
\* the key the predictor looks up next is the last two moves recorded, in
\* their order.
C22_PatternCountsExact ==
    /\ \A a \in Moves, b \in Moves, c \in Moves :
          Get(PatternHistory, <<a, b>>, ZeroCounts)[c] = TripleCount(Done, a, b, c)
    /\ LeafSum(PatternHistory, DOMAIN PatternHistory)
          = IF Len(Done) >= 2 THEN Len(Done) - 2 ELSE 0
    /\ Len(Done) >= 2 =>
          /\ Len(MoveSequence) >= 2
          /\ PatternKey(MoveSequence) = <<Done[Len(Done) - 1], Done[Len(Done)]>>

\* more moves are recorded than the window holds, and some pattern is counted
\* more often than it occurs in the window, under a key of two different moves
C22_Witness ==
    /\ Len(Done) > SEQUENCE_WINDOW
    /\ \E a \in Moves, b \in Moves, c \in Moves :
          /\ a # b
          /\ <<a, b>> \in DOMAIN PatternHistory
          /\ PatternHistory[<<a, b>>][c] > TripleCount(MoveSequence, a, b, c)
          /\ TripleCount(MoveSequence, a, b, c) >= 1
    /\ MoveSequence[Len(MoveSequence)] # MoveSequence[Len(MoveSequence) - 1]

-----------------------------------------------------------------------------
\* the pattern strategy's own conditions hold on the record: its last two
\* moves are a key with at least MIN_PATTERN_THRESHOLD occurrences
PatternUsable(player_data) ==
    LET move_sequence == Get(player_data, "move_sequence", <<>>)
        pattern_history == Get(player_data, "pattern_history", EmptyDict)
    IN  /\ Len(move_sequence) >= 2
        /\ PatternKey(move_sequence) \in DOMAIN pattern_history
        /\ Total(pattern_history[PatternKey(move_sequence)]) >= MIN_PATTERN_THRESHOLD

\* C25: in a record built by recorder calls, a pattern key counted
\* MIN_PATTERN_THRESHOLD times or more comes with MIN_HISTORY_THRESHOLD or
\* more recorded moves, so whenever the pattern strategy's own conditions
\* hold the predictor does not answer with the learning strategy.
C25_GateNeverMasksPattern ==
    \A id \in Humans(LEADERBOARD) :
        LET player_data == LEADERBOARD[id]
            pattern_history == Get(player_data, "pattern_history", EmptyDict)
            learns == \E result \in get_strategic_cpu_choice(LEADERBOARD, id) :
                          result.strategy_used = "learning"
        IN  /\ \A key \in DOMAIN pattern_history :
                  Total(pattern_history[key]) >= MIN_PATTERN_THRESHOLD
                      => Total(player_data.choice_history) >= MIN_HISTORY_THRESHOLD
            /\ PatternUsable(player_data) => ~learns

\* a pattern key has reached the threshold of the pattern strategy with the
\* fewest moves that can do it, and the predictor answers with the pattern
C25_Witness ==
    /\ Total(LEADERBOARD["p1"].choice_history) = MIN_HISTORY_THRESHOLD
    /\ PatternUsable(LEADERBOARD["p1"])
    /\ cpu_reply.status = 200
    /\ cpu_reply.opponent_id = "p1"
    /\ cpu_reply.result.strategy_used = "pattern"

-----------------------------------------------------------------------------
\* the records of tied rounds in the history
TieRecords ==
    {k \in DOMAIN GAME_STATE.game_history : GAME_STATE.game_history[k].result = "tie"}

\* C23: in every state the session's books agree: current_round is within
\* 0..10; an active game has current_round below 10, so that play_round
\* never answers "Game is over"; the history has current_round records, the
\* k-th of them numbered k; and the round wins of both seats and the tied
\* records add up to current_round.
C23_SessionBookkeeping ==
    /\ GAME_STATE.current_round \in 0..GAME_ROUNDS
    /\ GAME_STATE.game_active => GAME_STATE.current_round < GAME_ROUNDS
    /\ \A c1 \in ChoiceInputs, c2 \in ChoiceInputs :
          LET response == play_round(LEADERBOARD, GAME_STATE, c1, c2).response
          IN  response.status = 400 => response.error # "Game is over"
    /\ Len(GAME_STATE.game_history) = GAME_STATE.current_round
    /\ \A k \in DOMAIN GAME_STATE.game_history : GAME_STATE.game_history[k].round = k
    /\ GAME_STATE.player1_round_wins + GAME_STATE.player2_round_wins
          + Cardinality(TieRecords) = GAME_STATE.current_round

\* a game has ended after ten rounds of all three results
C23_Witness ==
    /\ GAME_STATE.current_round = GAME_ROUNDS
    /\ ~GAME_STATE.game_active
    /\ GAME_STATE.player1_round_wins >= 2
    /\ GAME_STATE.player2_round_wins >= 2
    /\ Cardinality(TieRecords) >= 2

-----------------------------------------------------------------------------
\* C24: in every state the CPU's record is in the store, and the two seats of
\* an active game are held by players whose records are in the store, so
\* that no play_round call fails on a missing record, whatever register,
\* start_game, play_round and reset calls came before.
C24_SeatsAreRegistered ==
    /\ CPU_ID \in DOMAIN LEADERBOARD
    /\ LEADERBOARD[CPU_ID].is_cpu
    /\ GAME_STATE.game_active =>
          {GAME_STATE.player1_id, GAME_STATE.player2_id} \subseteq DOMAIN LEADERBOARD
    /\ \A c1 \in ChoiceInputs, c2 \in ChoiceInputs :
          play_round(LEADERBOARD, GAME_STATE, c1, c2).response.status \in {200, 400}

\* a round of an active game between the human p1 and the CPU has raised
\* p1's score
C24_Witness ==
    /\ GAME_STATE.game_active
    /\ GAME_STATE.player1_id = "p1"
    /\ GAME_STATE.player2_id = CPU_ID
    /\ GAME_STATE.player1_round_wins >= 1
    /\ LEADERBOARD["p1"].score >= 1

====
